---- MODULE Spec2Model ----
(***************************************************************************)
(* Model of the unified run command of the dotset CLI (`dotset run`):      *)
(* option validation, secret resolution, monitoring initialisation, the    *)
(* supervised child process with signal forwarding, and the report phase.  *)
(* One behaviour of the model is one invocation of the command.            *)
(***************************************************************************)
EXTENDS Integers, Sequences, FiniteSets, TLC

VARIABLES
    opts,           \* the RunOptions and the command given on the command line
    parentEnv,      \* process.env of the supervisor
    vaultVars,      \* what the secret provider holds for (service, scope)
    axion,          \* the secret provider's surroundings: what each call does
    gluon,          \* the monitoring's surroundings: what each call does
    pc,             \* position of runUnified
    secretVars,     \* let secretVars
    axionAvailable, \* let axionAvailable
    secretFailures, \* failures met while resolving secrets
    calls,          \* collaborator calls made so far, in order
    telemetry,      \* let telemetry: the collector's session id, or NoSession
    hookManager,    \* let hookManager !== null
    monitorState,   \* the secrets monitor: created, mode, tracked pairs
    gluonAvailable, \* let gluonAvailable
    activeMode,     \* let activeMode
    idCount,        \* number of generateSessionId() calls so far
    child,          \* the ChildProcess handle and the process behind it
    listeners,      \* process listeners per signal (count of handlers)
    signalHandlers, \* the signalHandlers map of spawnMonitoredProcess (its keys)
    promise,        \* the promise returned by spawnMonitoredProcess
    settleCalls,    \* number of resolve()/reject() calls made on that promise
    kills,          \* child.kill(signal) calls, in order
    proc,           \* the supervisor process: running, exited (code), signalled
    out,            \* lines the supervisor wrote to stdout
    secretExposures,\* let secretExposures
    nSignals,       \* signals delivered to the supervisor so far
    nErrors,        \* 'error' events the child handle emitted so far
    elapsed,        \* Date.now() - startTime when line 319 reads the clock
    errorText,      \* the message handed to error(), "" when it was not called
    errors,         \* the codes of the 'error' events handled, in order
    produced,       \* per stream, the chunks the child has written
    piped,          \* per stream, the chunks not yet read by the transform
    pending,        \* per parent stream, transform outputs not yet written
    written         \* per parent stream, what has reached it

vars == <<opts, parentEnv, vaultVars, axion, gluon, pc, secretVars, axionAvailable,
          secretFailures, calls, telemetry, hookManager, monitorState,
          gluonAvailable, activeMode, idCount, child, listeners,
          signalHandlers, promise, settleCalls, kills, proc, out,
          secretExposures, nSignals, nErrors, elapsed, errorText, errors,
          produced, piped, pending, written>>

----------------------------------------------------------------------------
(* Bounds *)

MaxSignals == 1
MaxChildErrors == 1
MaxChunks == 2
MaxDurationMs == 130000

----------------------------------------------------------------------------
(* Values *)

FORWARDED_SIGNALS == {"SIGINT", "SIGTERM", "SIGHUP"}

ValidScopes == {"development", "staging", "production"}

ValidModes == {"detect", "redact", "block"}

NoMode == "undefined"

NoSignal == "null"

NoSession == "null"

SessionKey == "GLUON_SESSION_ID"

\* a value of type number | null
Num(n) == [set |-> TRUE, val |-> n]

Null == [set |-> FALSE, val |-> 0]

\* JavaScript truthiness of a string | undefined | null value
Truthy(s) == s \notin {"undefined", "null", ""}

EmptyMap == [k \in {} |-> ""]

\* a spread in which the earlier object wins
Spread_first(a, b) ==
    [k \in (DOMAIN a) \cup (DOMAIN b) |-> IF k \in DOMAIN a THEN a[k] ELSE b[k]]

\* object spread { ...a, ...b }
Spread(a, b) ==
    [k \in (DOMAIN a) \cup (DOMAIN b) |-> IF k \in DOMAIN b THEN b[k] ELSE a[k]]

\* generateSessionId(): a fresh identifier on every call
generateSessionId(n) == <<"sess-1", "sess-2", "sess-3">>[n + 1]

\* error() of @dotsetlabs/core: prints the message and ends the process
ErrorExitCode == 1

error == [state |-> "exited", code |-> ErrorExitCode]

\* input domains of one invocation
NoCommand == "undefined"

Commands == {NoCommand, "node"}

Scopes == {"development", "bogus"}

Modes == {NoMode, "", "redact", "bogus"}

\* the run requests explored: --redact-text accompanies --mode redact
RunRequests ==
    { o \in [command : Commands, scope : Scopes, mode : Modes,
             secrets : BOOLEAN, monitor : BOOLEAN, redactText : BOOLEAN,
             verbose : BOOLEAN, quiet : BOOLEAN] :
        o.redactText <=> o.mode = "redact" }

\* the requests without --verbose, which only adds output lines
PlainRequests == { o \in RunRequests : ~o.verbose }

ParentEnvs ==
    { [k \in {"PATH"} |-> "/bin"],
      [k \in {"PATH", "TEST_SECRET", SessionKey} |->
          IF k = "PATH" THEN "/bin" ELSE "inherited"] }

VaultContents ==
    { [k \in {"TEST_SECRET", SessionKey} |->
          IF k = "TEST_SECRET" THEN "secret-value-123" ELSE "from-vault"] }

IsInitOutcomes == {"true", "false", "throws"}

ShowKeyOutcomes == {"ok", "throws"}

ProjectConfigOutcomes == {"unreadable", "noProjectId", "linked"}

FetchOutcomes == {"rejects", "notOk", "ok"}

GetVariablesOutcomes == {"ok", "throws"}

\* what the calls of the secret phase do in this run; a call that is never
\* reached has one fixed outcome
SecretWorlds ==
    { w \in [isInitialized : IsInitOutcomes, showKey : ShowKeyOutcomes,
             projectConfig : ProjectConfigOutcomes, token : BOOLEAN,
             fetch : FetchOutcomes, getVariables : GetVariablesOutcomes] :
        /\ w.isInitialized # "true" => w.showKey = "ok" /\ w.getVariables = "ok"
        /\ w.showKey = "ok" => w.projectConfig = "noProjectId"
        /\ w.projectConfig # "linked" => ~w.token
        /\ ~w.token => w.fetch = "notOk" }

\* the secret surroundings explored when the request disables the secrets:
\* a provider that is available, one that is not initialised, one that throws
SecretWorldsSample ==
    { w \in SecretWorlds : w.showKey = "ok" /\ w.getVariables = "ok" }

\* the calls of the monitoring phase that may throw
FailableSteps ==
    {"gluon.isInitialized", "loadConfig", "createCollector", "setScope",
     "createHookManager", "createSecretsMonitor", "setMode", "setRedactText",
     "registerHooks", "trackEnvVar", "getPatternCount"}

\* what the calls of the monitoring phase do in this run: whether a Gluon
\* configuration is persisted, its mode, and the call that throws (or "none")
MonitorWorlds ==
    { w \in [isInitialized : BOOLEAN, configMode : ValidModes,
             failAt : FailableSteps \cup {"none"}] :
        ~w.isInitialized => w.configMode = "detect" /\ w.failAt # "loadConfig" }

\* the monitoring surroundings explored along with every secret surrounding
MonitorWorldsSample ==
    { w \in MonitorWorlds :
        /\ w.isInitialized
        /\ w.configMode = "block"
        /\ w.failAt \in {"none", "createCollector", "setScope"} }

\* the child's standard streams that the supervisor may intercept
Streams == {"stdout", "stderr"}

NoChunks == [t \in Streams |-> <<>>]

\* a spawn that opens a pipe for the child's stdin too
Stdio_allPiped(useMonitoring) ==
    IF useMonitoring THEN <<"pipe", "pipe", "pipe">>
                     ELSE <<"inherit", "inherit", "inherit">>

\* line 379: the stdio option, for stdin, stdout, stderr
Stdio(useMonitoring) ==
    IF useMonitoring THEN <<"inherit", "pipe", "pipe">>
                     ELSE <<"inherit", "inherit", "inherit">>

\* a wiring that sends each stream into the other stream's transform
Pipes_crossed(useMonitoring) ==
    IF useMonitoring
      THEN { [from |-> "stdout", via |-> "stderr", to |-> "stderr"],
             [from |-> "stderr", via |-> "stdout", to |-> "stdout"] }
      ELSE {}

\* lines 406-412: child.<from>.pipe(<via>Transform).pipe(process.<to>)
Pipes(useMonitoring) ==
    IF useMonitoring
      THEN { [from |-> "stdout", via |-> "stdout", to |-> "stdout"],
             [from |-> "stderr", via |-> "stderr", to |-> "stderr"] }
      ELSE {}

NoChild ==
    [exists |-> FALSE, pid |-> FALSE, alive |-> FALSE, closed |-> FALSE,
     env |-> EmptyMap, stdio |-> <<"none", "none", "none">>,
     transforms |-> {}, pipes |-> {},
     code |-> Null, signal |-> NoSignal]

\* the elapsed times explored along with the run
ElapsedSamples == {1500}

RECURSIVE Pow2Mod(_, _)
\* 2^k modulo m
Pow2Mod(k, m) == IF k = 0 THEN 1 % m ELSE (2 * Pow2Mod(k - 1, m)) % m

\* the binary exponent of ms / 1000, for 1000 <= ms < 64000
Exponent(ms) ==
    IF ms < 2000 THEN 0
    ELSE IF ms < 4000 THEN 1
    ELSE IF ms < 8000 THEN 2
    ELSE IF ms < 16000 THEN 3
    ELSE IF ms < 32000 THEN 4
    ELSE 5

\* line 455, ms / 1000: the sign of (the double the division yields - the
\* exact quotient); the quotient is rounded to 53 significant bits, ties to
\* the even significand
QuotientError(ms) ==
    LET k == 52 - Exponent(ms)
        r == ((ms % 2000) * Pow2Mod(k, 2000)) % 2000
        frac == r % 1000
    IN  IF frac = 0 THEN 0
        ELSE IF frac < 500 THEN -1
        ELSE IF frac > 500 THEN 1
        ELSE IF r < 1000 THEN -1 ELSE 1

\* a conversion that cuts the digits after the first decimal
Tenths_floor(ms) == ms \div 100

\* line 455, toFixed(1): the number of tenths nearest to the double, the
\* larger one when the double lies exactly between two
Tenths(ms) ==
    IF ms % 100 < 50 THEN ms \div 100
    ELSE IF ms % 100 > 50 THEN ms \div 100 + 1
    ELSE IF QuotientError(ms) >= 0 THEN ms \div 100 + 1
    ELSE ms \div 100

\* lines 451-461
formatDuration(ms) ==
    IF ms < 1000
      THEN ToString(ms) \o "ms"
    ELSE IF ms < 60000
      THEN ToString(Tenths(ms) \div 10) \o "." \o ToString(Tenths(ms) % 10) \o "s"
    ELSE ToString(ms \div 60000) \o "m "
         \o ToString((ms % 60000) \div 1000) \o "s"

Pending == [state |-> "pending", code |-> 0, msg |-> ""]

----------------------------------------------------------------------------
(* Init: the state when the action callback of `run` is entered *)

Init ==
    /\ opts \in PlainRequests
    /\ parentEnv \in ParentEnvs
    /\ vaultVars \in VaultContents
    /\ axion \in IF opts.secrets THEN SecretWorlds ELSE SecretWorldsSample
    /\ gluon \in IF opts.monitor
                   THEN MonitorWorldsSample
                   ELSE {w \in MonitorWorldsSample : w.failAt = "none"}
    /\ pc = "validate"
    /\ secretVars = EmptyMap
    /\ axionAvailable = FALSE
    /\ secretFailures = {}
    /\ calls = <<>>
    /\ telemetry = NoSession
    /\ hookManager = FALSE
    /\ monitorState = [created |-> FALSE, mode |-> "detect", tracked |-> {}]
    /\ gluonAvailable = FALSE
    /\ activeMode = "detect"
    /\ idCount = 0
    /\ child = NoChild
    /\ listeners = [s \in FORWARDED_SIGNALS |-> 0]
    /\ signalHandlers = {}
    /\ promise = Pending
    /\ settleCalls = 0
    /\ kills = <<>>
    /\ proc = [state |-> "running", code |-> 0]
    /\ out = <<>>
    /\ secretExposures = 0
    /\ nSignals = 0
    /\ nErrors = 0
    /\ elapsed \in ElapsedSamples
    /\ errorText = ""
    /\ errors = <<>>
    /\ produced = NoChunks
    /\ piped = NoChunks
    /\ pending = NoChunks
    /\ written = NoChunks

----------------------------------------------------------------------------
(* runUnified: validation *)

\* a validation that forgets the mode
UsageError_noMode(o) ==
    \/ ~Truthy(o.command)
    \/ o.scope \notin ValidScopes

\* lines 114-127: the message of the first error() call reached
UsageMessage(o) ==
    IF ~Truthy(o.command)
      THEN "No command specified. Usage: dotset run -- <command>"
    ELSE IF o.scope \notin ValidScopes
      THEN "Invalid scope. Must be one of: development, staging, production"
    ELSE "Invalid mode. Must be one of: detect, redact, block"

\* lines 114-128
UsageError(o) ==
    \/ ~Truthy(o.command)
    \/ o.scope \notin ValidScopes
    \/ (Truthy(o.mode) /\ o.mode \notin ValidModes)

Validate ==
    /\ pc = "validate"
    /\ proc.state = "running"
    /\ IF UsageError(opts)
         THEN /\ proc' = error
              /\ errorText' = UsageMessage(opts)
              /\ pc' = "done"
         ELSE /\ proc' = proc
              /\ errorText' = errorText
              /\ pc' = "secrets"
    /\ UNCHANGED <<elapsed, errors, produced, piped, pending, written,
                   secretExposures, opts, parentEnv, vaultVars, axion, gluon, secretVars, axionAvailable,
                   secretFailures, calls, telemetry, hookManager, monitorState,
                   gluonAvailable, activeMode, idCount, child, listeners,
                   signalHandlers, promise, settleCalls, kills, out,
                   nSignals, nErrors>>

----------------------------------------------------------------------------
(* runUnified, phase 1: load the secrets.  The arguments are the outcomes  *)
(* of the collaborator calls the phase may make, as `axion` fixes them.    *)

\* a lookup that asks the platform without a stored access token
RemoteKey_anyToken(cfg, token, fetch) ==
    IF cfg = "unreadable"
      THEN [key |-> FALSE, calls |-> <<"readFile">>,
            failures |-> {"projectConfigUnreadable"}]
    ELSE IF cfg = "noProjectId"
      THEN [key |-> FALSE, calls |-> <<"readFile">>, failures |-> {}]
    ELSE IF fetch = "rejects"
      THEN [key |-> FALSE, calls |-> <<"readFile", "getAccessToken", "fetch">>,
            failures |-> {"fetchRejects"}]
    ELSE IF fetch = "notOk"
      THEN [key |-> FALSE, calls |-> <<"readFile", "getAccessToken", "fetch">>,
            failures |-> {"fetchNotOk"}]
    ELSE [key |-> TRUE, calls |-> <<"readFile", "getAccessToken", "fetch">>,
          failures |-> {}]

\* lines 152-182: the remote key fallback, entered when showKey() threw
RemoteKey(cfg, token, fetch) ==
    IF cfg = "unreadable"
      THEN [key |-> FALSE, calls |-> <<"readFile">>,
            failures |-> {"projectConfigUnreadable"}]
    ELSE IF cfg = "noProjectId"
      THEN [key |-> FALSE, calls |-> <<"readFile">>, failures |-> {}]
    ELSE IF ~token
      THEN [key |-> FALSE, calls |-> <<"readFile", "getAccessToken">>,
            failures |-> {"noAccessToken"}]
    ELSE IF fetch = "rejects"
      THEN [key |-> FALSE, calls |-> <<"readFile", "getAccessToken", "fetch">>,
            failures |-> {"fetchRejects"}]
    ELSE IF fetch = "notOk"
      THEN [key |-> FALSE, calls |-> <<"readFile", "getAccessToken", "fetch">>,
            failures |-> {"fetchNotOk"}]
    ELSE [key |-> TRUE, calls |-> <<"readFile", "getAccessToken", "fetch">>,
          failures |-> {}]

\* a lookup that keeps the variables although getVariables threw
LoadVariables_keep(showKey, cfg, token, fetch, getVars, vault) ==
    LET remote == IF showKey = "throws"
                    THEN [RemoteKey(cfg, token, fetch) EXCEPT
                            !.failures = @ \cup {"localKeyUnreadable"}]
                    ELSE [key |-> FALSE, calls |-> <<>>, failures |-> {}]
        getCall == IF remote.key THEN "getVariables.remote"
                                 ELSE "getVariables.local"
    IN  [vars     |-> vault,
         loaded   |-> getVars = "ok",
         calls    |-> <<"showKey">> \o remote.calls \o <<getCall>>,
         failures |-> remote.failures \cup
                      (IF getVars = "ok" THEN {} ELSE {"getVariablesThrows"})]

\* lines 146-190: key lookup, then getVariables on the matching manager
LoadVariables(showKey, cfg, token, fetch, getVars, vault) ==
    LET remote == IF showKey = "throws"
                    THEN [RemoteKey(cfg, token, fetch) EXCEPT
                            !.failures = @ \cup {"localKeyUnreadable"}]
                    ELSE [key |-> FALSE, calls |-> <<>>, failures |-> {}]
        getCall == IF remote.key THEN "getVariables.remote"
                                 ELSE "getVariables.local"
    IN  [vars     |-> IF getVars = "ok" THEN vault ELSE EmptyMap,
         loaded   |-> getVars = "ok",
         calls    |-> <<"showKey">> \o remote.calls \o <<getCall>>,
         failures |-> remote.failures \cup
                      (IF getVars = "ok" THEN {} ELSE {"getVariablesThrows"})]

\* a guard that ignores --no-secrets
SecretsRequested_always(o) == TRUE

\* line 137: if (secrets)
SecretsRequested(o) == o.secrets

\* lines 192-201: status lines after the variables were loaded
SecretLines(o, loaded) ==
    (IF ~o.quiet /\ DOMAIN loaded # {} THEN <<"Loaded secrets">> ELSE <<>>)
    \o (IF o.verbose THEN <<"Secrets:">> ELSE <<>>)

\* lines 134-210
SecretPhase(o, isInit, showKey, cfg, token, fetch, getVars, vault) ==
    IF ~SecretsRequested(o)
      THEN [vars |-> EmptyMap, available |-> FALSE, calls |-> <<>>,
            failures |-> {}, lines |-> <<>>]
    ELSE IF isInit = "throws"
      THEN [vars |-> EmptyMap, available |-> FALSE,
            calls |-> <<"isInitialized">>,
            failures |-> {"isInitializedThrows"}, lines |-> <<>>]
    ELSE IF isInit = "false"
      THEN [vars |-> EmptyMap, available |-> FALSE,
            calls |-> <<"isInitialized">>,
            failures |-> {"notInitialized"},
            lines |-> IF o.verbose THEN <<"Axion not initialized">> ELSE <<>>]
    ELSE LET r == LoadVariables(showKey, cfg, token, fetch, getVars, vault)
         IN  [vars |-> r.vars, available |-> TRUE,
              calls |-> <<"isInitialized">> \o r.calls,
              failures |-> r.failures,
              lines |-> IF r.loaded THEN SecretLines(o, r.vars) ELSE <<>>]

LoadSecrets ==
    /\ pc = "secrets"
    /\ proc.state = "running"
    /\ LET r == SecretPhase(opts, axion.isInitialized, axion.showKey,
                            axion.projectConfig, axion.token, axion.fetch,
                            axion.getVariables, vaultVars)
       IN  /\ secretVars' = r.vars
           /\ axionAvailable' = r.available
           /\ secretFailures' = r.failures
           /\ calls' = calls \o r.calls
           /\ out' = out \o r.lines
    /\ pc' = "monitor"
    /\ UNCHANGED <<elapsed, errorText, errors, produced, piped, pending, written,
                   secretExposures, opts, parentEnv, vaultVars, axion, gluon, telemetry, hookManager,
                   monitorState, gluonAvailable, activeMode, idCount, child,
                   listeners, signalHandlers, promise, settleCalls, kills,
                   proc, nSignals, nErrors>>

----------------------------------------------------------------------------
(* runUnified, phase 2: initialise the monitoring.  isInit and configMode  *)
(* are what the persisted Gluon configuration says; failAt is the call     *)
(* that throws, or "none".                                                 *)

IndexOf(seq, x) ==
    IF \E i \in 1..Len(seq) : seq[i] = x
      THEN CHOOSE i \in 1..Len(seq) : seq[i] = x
      ELSE 0

\* an initialisation that registers no secret with the monitor
MonitorSteps_noTrack(o, isInit, secrets) ==
    <<"gluon.isInitialized">>
    \o (IF isInit THEN <<"loadConfig">> ELSE <<"createDefaultConfig">>)
    \o <<"generateSessionId", "createCollector", "setScope",
         "createHookManager", "createSecretsMonitor">>
    \o (IF Truthy(o.mode) THEN <<"setMode">> ELSE <<>>)
    \o <<"getMode">>
    \o (IF o.redactText THEN <<"setRedactText">> ELSE <<>>)
    \o <<"registerHooks">>
    \o (IF ~o.quiet THEN <<"getPatternCount">> ELSE <<>>)

\* the calls of lines 225-262, in program order
MonitorSteps(o, isInit, secrets) ==
    <<"gluon.isInitialized">>
    \o (IF isInit THEN <<"loadConfig">> ELSE <<"createDefaultConfig">>)
    \o <<"generateSessionId", "createCollector", "setScope",
         "createHookManager", "createSecretsMonitor">>
    \o (IF Truthy(o.mode) THEN <<"setMode">> ELSE <<>>)
    \o <<"getMode">>
    \o (IF o.redactText THEN <<"setRedactText">> ELSE <<>>)
    \o <<"registerHooks">>
    \o (IF DOMAIN secrets # {} THEN <<"trackEnvVar">> ELSE <<>>)
    \o (IF ~o.quiet THEN <<"getPatternCount">> ELSE <<>>)

\* lines 263-267
ModeLabel(m) ==
    IF m = "detect" THEN "detecting"
    ELSE IF m = "redact" THEN "redacting"
    ELSE "blocking"

\* lines 261-279
MonitorLines(o, m) ==
    (IF ~o.quiet THEN <<"Gluon " \o ModeLabel(m)>> ELSE <<>>)
    \o (IF o.verbose THEN <<"Session:", "Mode: " \o m, "Monitoring:">>
                     ELSE <<>>)

\* lines 216-285
MonitorPhase(o, isInit, configMode, failAt, secrets, ids) ==
    IF ~o.monitor
      THEN [telemetry |-> NoSession, hookManager |-> FALSE,
            monitor |-> [created |-> FALSE, mode |-> "detect", tracked |-> {}],
            available |-> FALSE, activeMode |-> "detect", ids |-> ids,
            calls |-> <<>>, lines |-> <<>>, failed |-> FALSE]
      ELSE
        LET steps == MonitorSteps(o, isInit, secrets)
            stop == IF IndexOf(steps, failAt) = 0 THEN Len(steps) + 1
                                                  ELSE IndexOf(steps, failAt)
            Done(step) == IndexOf(steps, step) # 0 /\ IndexOf(steps, step) < stop
            persisted == IF isInit THEN configMode ELSE "detect"
            monMode == IF Done("setMode") THEN o.mode ELSE persisted
            active == IF Done("getMode") THEN monMode ELSE "detect"
        IN  [telemetry |-> IF Done("createCollector")
                             THEN generateSessionId(ids) ELSE NoSession,
             hookManager |-> Done("createHookManager"),
             monitor |-> [created |-> Done("createSecretsMonitor"),
                          mode |-> IF Done("createSecretsMonitor")
                                     THEN monMode ELSE "detect",
                          tracked |-> IF Done("trackEnvVar")
                                        THEN {<<k, secrets[k]>> : k \in DOMAIN secrets}
                                        ELSE {}],
             available |-> Done("generateSessionId"),
             activeMode |-> active,
             ids |-> IF Done("generateSessionId") THEN ids + 1 ELSE ids,
             calls |-> SubSeq(steps, 1, IF stop > Len(steps) THEN Len(steps) ELSE stop),
             lines |-> IF stop > Len(steps) THEN MonitorLines(o, active)
                                            ELSE <<>>,
             failed |-> stop <= Len(steps)]

InitMonitoring ==
    /\ pc = "monitor"
    /\ proc.state = "running"
    /\ LET r == MonitorPhase(opts, gluon.isInitialized, gluon.configMode,
                             gluon.failAt, secretVars, idCount)
       IN  /\ telemetry' = r.telemetry
           /\ hookManager' = r.hookManager
           /\ monitorState' = r.monitor
           /\ gluonAvailable' = r.available
           /\ activeMode' = r.activeMode
           /\ idCount' = r.ids
           /\ calls' = calls \o r.calls
           /\ out' = out \o r.lines
    /\ pc' = "spawn"
    /\ UNCHANGED <<elapsed, errorText, errors, produced, piped, pending, written,
                   secretExposures, opts, parentEnv, vaultVars, axion, gluon, secretVars, axionAvailable,
                   secretFailures, child, listeners, signalHandlers, promise,
                   settleCalls, kills, proc, nSignals, nErrors>>

----------------------------------------------------------------------------
(* spawnMonitoredProcess *)

\* a promise that takes the outcome of the last call
Settle_last(p, outcome) == outcome

\* resolve()/reject() of a promise: only the first call settles it
Settle(p, outcome) == IF p.state = "pending" THEN outcome ELSE p

Resolved(c) == [state |-> "resolved", code |-> c, msg |-> ""]

Rejected(m) == [state |-> "rejected", code |-> 0, msg |-> m]

\* lines 362-370
MergedEnv(env, secrets, session, ids) ==
    LET merged == Spread(env, secrets)
    IN  IF session # NoSession
          THEN Spread(merged, [k \in {SessionKey} |-> generateSessionId(ids)])
          ELSE merged

\* a setup that leaves SIGHUP out
setupSignalForwarding_noHup(l) ==
    [s \in DOMAIN l |-> IF s \in {"SIGINT", "SIGTERM"} THEN l[s] + 1 ELSE l[s]]

\* lines 386-396: one handler per forwarded signal
setupSignalForwarding(l) ==
    [s \in DOMAIN l |-> IF s \in FORWARDED_SIGNALS THEN l[s] + 1 ELSE l[s]]

\* a teardown that removes nothing
cleanupSignalHandlers_none(l, held) == l

\* lines 398-403: remove the handlers still held in the signalHandlers map
cleanupSignalHandlers(l, held) ==
    [s \in DOMAIN l |-> IF s \in held THEN l[s] - 1 ELSE l[s]]

\* a handler that always sends SIGTERM
handler_term(signal, c, k) == IF c.pid THEN Append(k, "SIGTERM") ELSE k

\* lines 388-392: the handler registered for `signal`
handler(signal, c, k) == IF c.pid THEN Append(k, signal) ELSE k

SpawnOutcomes == {"ok", "fail", "throws"}

\* a run that never creates the hook context
ContextCreated_never(hooks, session) == FALSE

\* line 296: if (hookManager && telemetry)
ContextCreated(hooks, session) == hooks /\ session # NoSession

\* lines 291-298 and 360-414
SpawnChild ==
    /\ pc = "spawn"
    /\ proc.state = "running"
    /\ out' = IF ~opts.quiet /\ (axionAvailable \/ gluonAvailable)
                THEN Append(out, "") ELSE out
    /\ calls' = calls
                \o (IF ContextCreated(hookManager, telemetry)
                      THEN <<"createContext">> ELSE <<>>)
                \o (IF telemetry # NoSession
                      THEN <<"generateSessionId">> ELSE <<>>)
                \o <<"spawn">>
    /\ idCount' = IF telemetry # NoSession THEN idCount + 1 ELSE idCount
    /\ \E outcome \in SpawnOutcomes :
          IF outcome = "throws"
            THEN /\ child' = child
                 /\ promise' = Settle(promise, Rejected("spawn threw"))
                 /\ settleCalls' = settleCalls + 1
                 /\ UNCHANGED <<listeners, signalHandlers>>
            ELSE /\ child' = [exists |-> TRUE,
                              pid |-> outcome = "ok",
                              alive |-> outcome = "ok",
                              closed |-> FALSE,
                              env |-> MergedEnv(parentEnv, secretVars,
                                                telemetry, idCount),
                              stdio |-> Stdio(hookManager),
                              transforms |-> {w.via : w \in Pipes(hookManager)},
                              pipes |-> Pipes(hookManager),
                              code |-> Null, signal |-> NoSignal]
                 /\ listeners' = setupSignalForwarding(listeners)
                 /\ signalHandlers' = FORWARDED_SIGNALS
                 /\ UNCHANGED <<promise, settleCalls>>
    /\ pc' = "await"
    /\ UNCHANGED <<elapsed, errorText, errors, produced, piped, pending, written,
                   secretExposures, opts, parentEnv, vaultVars, axion, gluon, secretVars, axionAvailable,
                   secretFailures, telemetry, hookManager, monitorState,
                   gluonAvailable, activeMode, kills, proc, nSignals, nErrors>>

\* a SIGINT/SIGTERM/SIGHUP reaches the supervisor: its listeners run, or,
\* with none registered, the default disposition ends the process
RECURSIVE RunHandlers(_, _, _, _)
RunHandlers(n, signal, c, k) ==
    IF n = 0 THEN k ELSE RunHandlers(n - 1, signal, c, handler(signal, c, k))

DeliverSignal(signal) ==
    /\ proc.state = "running"
    /\ nSignals < MaxSignals
    /\ nSignals' = nSignals + 1
    /\ IF listeners[signal] = 0
         THEN /\ proc' = [state |-> "signalled", code |-> 0]
              /\ kills' = kills
         ELSE /\ proc' = proc
              /\ kills' = RunHandlers(listeners[signal], signal, child, kills)
    /\ UNCHANGED <<elapsed, errorText, errors, produced, piped, pending, written,
                   secretExposures, opts, parentEnv, vaultVars, axion, gluon, pc, secretVars, axionAvailable,
                   secretFailures, calls, telemetry, hookManager, monitorState,
                   gluonAvailable, activeMode, idCount, child, listeners,
                   signalHandlers, promise, settleCalls, out, nErrors>>

\* the ways the child process may end: an exit code or a terminating signal
ChildEndings ==
    { <<Num(7), NoSignal>>, <<Null, NoSignal>>,
      <<Null, "SIGINT">>, <<Null, "SIGTERM">>, <<Null, "SIGHUP">>,
      <<Null, "SIGKILL">> }

\* the child process ends (the operating system's side of the handle)
ChildExit(code, signal) ==
    /\ proc.state = "running"
    /\ child.exists /\ child.pid /\ child.alive
    /\ child' = [child EXCEPT !.alive = FALSE, !.code = code, !.signal = signal]
    /\ UNCHANGED <<elapsed, errorText, errors, produced, piped, pending, written,
                   secretExposures, opts, parentEnv, vaultVars, axion, gluon, pc, secretVars, axionAvailable,
                   secretFailures, calls, telemetry, hookManager, monitorState,
                   gluonAvailable, activeMode, idCount, listeners,
                   signalHandlers, promise, settleCalls, kills, proc, out,
                   nSignals, nErrors>>

\* a normalisation to 128 + signal number
ExitCodeOf_conventional(code, signal) ==
    IF Truthy(signal)
      THEN IF signal = "SIGINT" THEN 130
           ELSE IF signal = "SIGTERM" THEN 143
           ELSE IF signal = "SIGHUP" THEN 129
           ELSE IF signal = "SIGKILL" THEN 137
           ELSE 131
      ELSE IF code.set THEN code.val ELSE 0

\* lines 431-441
ExitCodeOf(code, signal) ==
    IF Truthy(signal)
      THEN IF signal = "SIGINT" THEN 130
           ELSE IF signal = "SIGTERM" THEN 143
           ELSE IF signal = "SIGHUP" THEN 129
           ELSE 128
      ELSE IF code.set THEN code.val ELSE 0

\* lines 428-444: child.on('close')
ChildClose ==
    /\ proc.state = "running"
    /\ child.exists /\ ~child.closed /\ ~child.alive
    /\ child.pid \/ nErrors > 0
    /\ piped = NoChunks
    /\ listeners' = cleanupSignalHandlers(listeners, signalHandlers)
    /\ signalHandlers' = {}
    /\ promise' = Settle(promise, Resolved(ExitCodeOf(child.code, child.signal)))
    /\ settleCalls' = settleCalls + 1
    /\ child' = [child EXCEPT !.closed = TRUE]
    /\ UNCHANGED <<elapsed, errorText, errors, produced, piped, pending, written,
                   secretExposures, opts, parentEnv, vaultVars, axion, gluon, pc, secretVars, axionAvailable,
                   secretFailures, calls, telemetry, hookManager, monitorState,
                   gluonAvailable, activeMode, idCount, kills, proc, out,
                   nSignals, nErrors>>

ErrorKinds == {"ENOENT", "OTHER"}

\* err.message of an 'error' event
SystemMessage(kind) == "spawn " \o kind

\* a handler that reports every error alike
ErrorMessage_generic(kind, command) ==
    "Failed to start command: " \o SystemMessage(kind)

\* lines 420-424
ErrorMessage(kind, command) ==
    IF kind = "ENOENT"
      THEN "Command not found: " \o command
      ELSE "Failed to start command: " \o SystemMessage(kind)

\* lines 417-425: child.on('error')
ChildError(kind) ==
    /\ proc.state = "running"
    /\ child.exists
    /\ nErrors < MaxChildErrors
    /\ child.pid => kind = "OTHER"
    /\ nErrors' = nErrors + 1
    /\ errors' = Append(errors, kind)
    /\ listeners' = cleanupSignalHandlers(listeners, signalHandlers)
    /\ signalHandlers' = {}
    /\ promise' = Settle(promise, Rejected(ErrorMessage(kind, opts.command)))
    /\ settleCalls' = settleCalls + 1
    /\ UNCHANGED <<elapsed, errorText, produced, piped, pending, written,
                   secretExposures, opts, parentEnv, vaultVars, axion, gluon, pc, secretVars, axionAvailable,
                   secretFailures, calls, telemetry, hookManager, monitorState,
                   gluonAvailable, activeMode, idCount, child, kills, proc, out,
                   nSignals>>

----------------------------------------------------------------------------
(* runUnified, phase 4, and the catch of the command's action callback *)

\* line 300 and lines 99-103: the await of the supervisor promise returns the
\* result, or throws into the catch of the action callback, which calls error()
AwaitResult ==
    /\ pc = "await"
    /\ proc.state = "running"
    /\ promise.state # "pending"
    /\ IF promise.state = "resolved"
         THEN /\ pc' = "shutdown"
              /\ proc' = proc
              /\ errorText' = errorText
         ELSE /\ pc' = "done"
              /\ proc' = error
              /\ errorText' = promise.msg
    /\ UNCHANGED <<elapsed, errors, produced, piped, pending, written,
                   secretExposures, opts, parentEnv, vaultVars, axion, gluon, secretVars,
                   axionAvailable, secretFailures, calls, telemetry,
                   hookManager, monitorState, gluonAvailable, activeMode,
                   idCount, child, listeners, signalHandlers, promise,
                   settleCalls, kills, out, nSignals, nErrors>>

CallOutcomes == {"ok", "throws"}

\* lines 313-316, and lines 99-103 when shutdown() rejects
TelemetryShutdown ==
    /\ pc = "shutdown"
    /\ proc.state = "running"
    /\ telemetry # NoSession
    /\ calls' = Append(calls, "shutdown")
    /\ \E outcome \in CallOutcomes :
          IF outcome = "ok"
            THEN /\ pc' = "stats"
                 /\ proc' = proc
                 /\ errorText' = errorText
            ELSE /\ pc' = "done"
                 /\ proc' = error
                 /\ errorText' = "shutdown failed"
    /\ UNCHANGED <<elapsed, errors, produced, piped, pending, written,
                   secretExposures, opts, parentEnv, vaultVars, axion, gluon, secretVars,
                   axionAvailable, secretFailures, telemetry, hookManager,
                   monitorState, gluonAvailable, activeMode, idCount, child,
                   listeners, signalHandlers, promise, settleCalls, kills, out,
                   nSignals, nErrors>>

\* the counts of secret_exposure events the statistics may report
ExposureCounts == {0, 1}

\* lines 319-325, and lines 99-103 when getStats() rejects
GetStats ==
    /\ pc = "stats"
    /\ proc.state = "running"
    /\ calls' = Append(calls, "getStats")
    /\ \E outcome \in CallOutcomes, n \in ExposureCounts :
          IF outcome = "ok"
            THEN /\ secretExposures' = n
                 /\ pc' = "report"
                 /\ proc' = proc
                 /\ errorText' = errorText
            ELSE /\ secretExposures' = secretExposures
                 /\ pc' = "done"
                 /\ proc' = error
                 /\ errorText' = "getStats failed"
    /\ UNCHANGED <<elapsed, errors, produced, piped, pending, written,
                   opts, parentEnv, vaultVars, axion, gluon, secretVars,
                   axionAvailable, secretFailures, telemetry, hookManager,
                   monitorState, gluonAvailable, activeMode, idCount, child,
                   listeners, signalHandlers, promise, settleCalls, kills, out,
                   nSignals, nErrors>>

\* lines 333-343
ExposureLines(n, m) ==
    IF n > 0
      THEN IF m = "detect" THEN <<"", "exposures detected", "Check telemetry.log">>
           ELSE IF m = "redact" THEN <<"", "secrets redacted">>
           ELSE <<"", "outputs blocked">>
      ELSE <<>>

\* a report printed whenever --quiet is absent
SummaryShown_unlessQuiet(o, axionOk, gluonOk) == ~o.quiet

\* line 328
SummaryShown(o, axionOk, gluonOk) == ~o.quiet /\ (axionOk \/ gluonOk)

\* line 330
SummaryLine(code, durationMs) ==
    "[dotset] Exited with code " \o ToString(code)
    \o " (" \o formatDuration(durationMs) \o ")"

\* lines 328-344
SummaryLines(o, axionOk, gluonOk, code, durationMs, n, m) ==
    IF SummaryShown(o, axionOk, gluonOk)
      THEN <<"", "----", SummaryLine(code, durationMs)>> \o ExposureLines(n, m)
      ELSE <<>>

\* a report that does not wait for the telemetry calls
ReportReady_early == pc \in {"report", "shutdown"}

\* lines 313-327: the report follows getStats(); without a telemetry
\* session it follows the await directly
ReportReady == pc = "report" \/ (pc = "shutdown" /\ telemetry = NoSession)

\* lines 327-346; without a telemetry session it follows the await directly
Report ==
    /\ ReportReady
    /\ proc.state = "running"
    /\ out' = out \o SummaryLines(opts, axionAvailable, gluonAvailable,
                                   promise.code, elapsed, secretExposures,
                                   activeMode)
    /\ proc' = [state |-> "exited", code |-> promise.code]
    /\ pc' = "done"
    /\ UNCHANGED <<elapsed, errorText, errors, produced, piped, pending, written,
                   secretExposures, opts, parentEnv, vaultVars, axion, gluon, secretVars,
                   axionAvailable, secretFailures, calls, telemetry,
                   hookManager, monitorState, gluonAvailable, activeMode,
                   idCount, child, listeners, signalHandlers, promise,
                   settleCalls, kills, nSignals, nErrors>>

----------------------------------------------------------------------------
(* The child's output.  With piped stdio a chunk passes the pipe, the      *)
(* transform and then the parent's stream; with inherited stdio the child  *)
(* writes to the parent's stream itself.                                   *)

\* everything but the four stream variables
runVars == <<opts, parentEnv, vaultVars, axion, gluon, pc, secretVars,
             axionAvailable, secretFailures, calls, telemetry, hookManager,
             monitorState, gluonAvailable, activeMode, idCount, child,
             listeners, signalHandlers, promise, settleCalls, kills, proc,
             out, secretExposures, nSignals, nErrors, elapsed, errorText,
             errors>>

\* a chunk of output: the stream the child wrote it to, its position there
Chunk(stream, n) == [src |-> stream, seq |-> n]

\* the position of a stream in the stdio option
StreamIndex(stream) == IF stream = "stdout" THEN 2 ELSE 3

\* what the transform created under `name` emits for a chunk
TransformOutput(name, chunk) == [via |-> name, of |-> chunk]

\* a chunk that reaches the parent's stream without a transform
Raw(chunk) == [via |-> "none", of |-> chunk]

ChunksProduced == Len(produced["stdout"]) + Len(produced["stderr"])

\* the child writes a chunk to its stdout or stderr
ChildWrite(stream) ==
    /\ proc.state = "running"
    /\ child.exists /\ child.pid /\ child.alive
    /\ ChunksProduced < MaxChunks
    /\ LET c == Chunk(stream, Len(produced[stream]) + 1)
       IN  /\ produced' = [produced EXCEPT ![stream] = Append(@, c)]
           /\ IF child.stdio[StreamIndex(stream)] = "pipe"
                THEN /\ piped' = [piped EXCEPT ![stream] = Append(@, c)]
                     /\ written' = written
                ELSE /\ piped' = piped
                     /\ written' = [written EXCEPT ![stream] = Append(@, Raw(c))]
    /\ UNCHANGED <<runVars, pending>>

\* lines 410-411, first pipe(): the transform takes the next chunk of
\* child.<stream> and emits its output for it, or suppresses the chunk
TransformChunk(stream) ==
    /\ proc.state = "running"
    /\ piped[stream] # <<>>
    /\ \E w \in child.pipes, emits \in BOOLEAN :
          /\ w.from = stream
          /\ piped' = [piped EXCEPT ![stream] = Tail(@)]
          /\ pending' = [pending EXCEPT ![w.via] =
                 IF emits
                   THEN Append(@, TransformOutput(w.via, Head(piped[stream])))
                   ELSE @]
    /\ UNCHANGED <<runVars, produced, written>>

\* lines 410-411, second pipe(): the parent's stream takes the next output
\* of the transform
WriteChunk(name) ==
    /\ proc.state = "running"
    /\ pending[name] # <<>>
    /\ \E w \in child.pipes :
          /\ w.via = name
          /\ pending' = [pending EXCEPT ![name] = Tail(@)]
          /\ written' = [written EXCEPT ![w.to] = Append(@, Head(pending[name]))]
    /\ UNCHANGED <<runVars, produced, piped>>

----------------------------------------------------------------------------
(* formatDuration applied to one input *)

ApplyFormatDuration ==
    /\ pc = "format"
    /\ out' = <<formatDuration(elapsed)>>
    /\ pc' = "formatted"
    /\ UNCHANGED <<opts, parentEnv, vaultVars, axion, gluon, secretVars,
                   axionAvailable, secretFailures, calls, telemetry,
                   hookManager, monitorState, gluonAvailable, activeMode,
                   idCount, child, listeners, signalHandlers, promise,
                   settleCalls, kills, proc, secretExposures, nSignals,
                   nErrors, elapsed, errorText, errors, produced, piped,
                   pending, written>>

----------------------------------------------------------------------------

Next ==
    \/ Validate
    \/ LoadSecrets
    \/ InitMonitoring
    \/ SpawnChild
    \/ \E signal \in FORWARDED_SIGNALS : DeliverSignal(signal)
    \/ \E e \in ChildEndings : ChildExit(e[1], e[2])
    \/ ChildClose
    \/ \E kind \in ErrorKinds : ChildError(kind)
    \/ AwaitResult
    \/ TelemetryShutdown
    \/ GetStats
    \/ Report

Spec == Init /\ [][Next]_vars

----------------------------------------------------------------------------
(* Further specifications: the same run over other inputs *)

\* the locals of runUnified and the process around it before the first step
Idle ==
    /\ secretVars = EmptyMap
    /\ axionAvailable = FALSE
    /\ secretFailures = {}
    /\ calls = <<>>
    /\ telemetry = NoSession
    /\ hookManager = FALSE
    /\ monitorState = [created |-> FALSE, mode |-> "detect", tracked |-> {}]
    /\ gluonAvailable = FALSE
    /\ activeMode = "detect"
    /\ idCount = 0
    /\ child = NoChild
    /\ listeners = [s \in FORWARDED_SIGNALS |-> 0]
    /\ signalHandlers = {}
    /\ promise = Pending
    /\ settleCalls = 0
    /\ kills = <<>>
    /\ proc = [state |-> "running", code |-> 0]
    /\ out = <<>>
    /\ secretExposures = 0
    /\ nSignals = 0
    /\ nErrors = 0
    /\ errorText = ""
    /\ errors = <<>>
    /\ produced = NoChunks
    /\ piped = NoChunks
    /\ pending = NoChunks
    /\ written = NoChunks

\* a secret provider that is initialised and answers every call
AxionReady ==
    { w \in SecretWorldsSample : w.isInitialized = "true" }

\* a monitoring in which no call throws
GluonReady ==
    { w \in MonitorWorlds :
        w.isInitialized /\ w.configMode = "detect" /\ w.failAt = "none" }

\* the requests explored with every monitoring surrounding
MonitorRequests ==
    { o \in RunRequests :
        /\ o.command = "node" /\ o.scope = "development"
        /\ o.mode # "" /\ o.secrets }

\* every surrounding of the monitoring phase, with and without --verbose
InitMonitor ==
    /\ opts \in MonitorRequests
    /\ parentEnv \in { e \in ParentEnvs : DOMAIN e = {"PATH"} }
    /\ vaultVars \in VaultContents
    /\ axion \in AxionReady
    /\ gluon \in IF opts.monitor THEN MonitorWorlds ELSE GluonReady
    /\ elapsed \in ElapsedSamples
    /\ pc = "validate"
    /\ Idle

SpecMonitor == InitMonitor /\ [][Next]_vars

\* the requests explored along with the child's output
StreamRequests ==
    { o \in PlainRequests :
        /\ o.command = "node" /\ o.scope = "development"
        /\ o.mode = NoMode /\ ~o.secrets /\ o.quiet }

InitStreams ==
    /\ opts \in StreamRequests
    /\ parentEnv \in { e \in ParentEnvs : DOMAIN e = {"PATH"} }
    /\ vaultVars \in VaultContents
    /\ axion \in AxionReady
    /\ gluon \in GluonReady
    /\ elapsed \in ElapsedSamples
    /\ pc = "validate"
    /\ Idle

NextStreams ==
    \/ Next
    \/ \E stream \in Streams : ChildWrite(stream)
    \/ \E stream \in Streams : TransformChunk(stream)
    \/ \E name \in Streams : WriteChunk(name)

SpecStreams == InitStreams /\ [][NextStreams]_vars

\* formatDuration over every duration up to MaxDurationMs
InitDuration ==
    /\ opts \in StreamRequests
    /\ parentEnv \in { e \in ParentEnvs : DOMAIN e = {"PATH"} }
    /\ vaultVars \in VaultContents
    /\ axion \in AxionReady
    /\ gluon \in GluonReady
    /\ elapsed \in 0..MaxDurationMs
    /\ pc = "format"
    /\ Idle

NextDuration == ApplyFormatDuration

SpecDuration == InitDuration /\ [][NextDuration]_vars

----------------------------------------------------------------------------
(* Properties *)

Count(seq, x) == Cardinality({i \in 1..Len(seq) : seq[i] = x})

SessionIds == {generateSessionId(n) : n \in 0..2}

ProviderCalls ==
    {"isInitialized", "showKey", "readFile", "getAccessToken", "fetch",
     "getVariables.local", "getVariables.remote"}

NoListeners == [s \in FORWARDED_SIGNALS |-> 0]

\* the child was spawned and neither its close nor its error event was handled
ChildRunning == child.exists /\ child.pid /\ ~child.closed /\ nErrors = 0

\* the close or the error event of the child has been handled
TerminalHandled == child.closed \/ nErrors > 0

\* C1: the exit code the close handler resolves with is 130 for SIGINT, 143
\* for SIGTERM, 129 for SIGHUP, 128 for any other signal, and without a signal
\* the child's exit code, or 0 when that code is null.
C1_ExitCodeNormalization ==
    promise.state = "resolved" =>
        /\ child.signal = "SIGINT" => promise.code = 130
        /\ child.signal = "SIGTERM" => promise.code = 143
        /\ child.signal = "SIGHUP" => promise.code = 129
        /\ child.signal \notin {NoSignal, "SIGINT", "SIGTERM", "SIGHUP"}
              => promise.code = 128
        /\ child.signal = NoSignal /\ child.code.set
              => promise.code = child.code.val
        /\ child.signal = NoSignal /\ ~child.code.set => promise.code = 0

C1_Witness ==
    /\ promise.state = "resolved"
    /\ child.signal = "SIGKILL"
    /\ promise.code = 128

\* C2: once the supervisor promise has resolved with code c, the process
\* exits with exactly c, whatever telemetry.shutdown(), telemetry.getStats()
\* or the summary do.
C2_ExitCodeIntegrity ==
    (proc.state = "exited" /\ promise.state = "resolved")
        => proc.code = promise.code

\* C3: the promise of spawnMonitoredProcess settles once and keeps its
\* outcome; when the error event is handled first the outcome is a rejection,
\* and a close event handled afterwards changes nothing that can be observed.
C3_ExactlyOnceSettlement ==
    [][ /\ promise.state # "pending" => promise' = promise
        /\ (nErrors' > 0 /\ ~child'.closed) => promise'.state = "rejected"
        /\ (promise.state = "rejected" /\ ~child.closed /\ child'.closed)
              => UNCHANGED <<promise, listeners, signalHandlers, kills, proc,
                             pc, out, calls>> ]_vars

C3_Witness ==
    /\ nErrors > 0
    /\ child.closed
    /\ settleCalls = 2
    /\ promise.state = "rejected"

\* C4: while the child is running, a SIGINT, SIGTERM or SIGHUP delivered to
\* the supervisor makes exactly one kill call on the child, with the same
\* signal, and leaves the supervisor running with its promise pending.
C4_SignalRelay ==
    [][ \A signal \in FORWARDED_SIGNALS :
          (ChildRunning /\ DeliverSignal(signal))
              => /\ kills' = Append(kills, signal)
                 /\ promise.state = "pending"
                 /\ promise' = promise
                 /\ proc'.state = "running"
                 /\ pc' = pc
                 /\ listeners' = listeners ]_vars

C4_Witness ==
    /\ ChildRunning
    /\ kills = <<"SIGHUP">>
    /\ promise.state = "pending"
    /\ proc.state = "running"

\* C5: after the close or the error event of the child has been handled, no
\* signal delivered to the supervisor produces a kill call.
C5_SignalIdempotence ==
    [][ TerminalHandled => kills' = kills ]_vars

C5_Witness ==
    /\ child.closed
    /\ nSignals > 0
    /\ kills = <<>>
    /\ proc.state = "signalled"

\* C6: the supervisor's signal listeners are one handler each for SIGINT,
\* SIGTERM and SIGHUP from the spawn until the first terminal event is
\* handled, and none before the spawn and after a terminal event, also after
\* the teardown has run a second time.
C6_SignalRouteLifecycle ==
    /\ ~child.exists => listeners = NoListeners
    /\ (child.exists /\ ~TerminalHandled)
          => listeners = [s \in FORWARDED_SIGNALS |-> 1]
    /\ TerminalHandled => listeners = NoListeners /\ signalHandlers = {}

C6_Witness ==
    /\ child.closed
    /\ nErrors > 0
    /\ listeners = NoListeners

C8_NoSecretsNoInjection ==
    ~opts.secrets =>
        /\ \A i \in 1..Len(calls) : calls[i] \notin ProviderCalls
        /\ child.exists =>
              /\ DOMAIN child.env = (DOMAIN parentEnv) \cup
                    (IF telemetry # NoSession THEN {SessionKey} ELSE {})
              /\ \A k \in DOMAIN child.env :
                    IF k = SessionKey /\ telemetry # NoSession
                      THEN child.env[k] \in SessionIds
                      ELSE child.env[k] = parentEnv[k]

C8_Witness ==
    /\ ~opts.secrets
    /\ axion.isInitialized = "true" /\ axion.getVariables = "ok"
    /\ child.exists
    /\ telemetry # NoSession
    /\ "TEST_SECRET" \notin DOMAIN child.env

\* C9: the child's environment is the inherited environment, overlaid with
\* the resolved secrets, overlaid with GLUON_SESSION_ID; the session id is
\* added only when monitoring is enabled, and a secret is visible to the
\* child unless the session id overrides it.
C9_EnvironmentLayering ==
    child.exists =>
        /\ \A k \in {"PATH", "TEST_SECRET", SessionKey, "HOME"} :
              IF k = SessionKey /\ telemetry # NoSession
                THEN k \in DOMAIN child.env /\ child.env[k] \in SessionIds
              ELSE IF k \in DOMAIN secretVars
                THEN k \in DOMAIN child.env /\ child.env[k] = secretVars[k]
              ELSE IF k \in DOMAIN parentEnv
                THEN k \in DOMAIN child.env /\ child.env[k] = parentEnv[k]
              ELSE k \notin DOMAIN child.env
        /\ (SessionKey \in DOMAIN child.env /\ child.env[SessionKey] \in SessionIds)
              => opts.monitor

C9_Witness ==
    /\ child.exists
    /\ telemetry # NoSession
    /\ SessionKey \in DOMAIN secretVars
    /\ "TEST_SECRET" \in DOMAIN parentEnv
    /\ child.env["TEST_SECRET"] = "secret-value-123"
    /\ child.env[SessionKey] \in SessionIds

\* the run is not aborted: the command is spawned once, and the process does
\* not exit before
SpawnedOnce ==
    /\ Count(calls, "spawn") <= 1
    /\ proc.state = "exited" => Count(calls, "spawn") = 1
    /\ pc \notin {"monitor", "spawn"} => Count(calls, "spawn") = 1

\* C10 as stated: after any failure in the secret phase the secret map used
\* is empty and the command is still spawned exactly once.
C10_EmptyOnAnyFailure ==
    secretFailures # {} => secretVars = EmptyMap /\ SpawnedOnce

\* C10, amended: after any failure in the secret phase the run is not
\* aborted and the command is still spawned exactly once; the secret map
\* used is empty unless the key lookup failed locally and getVariables then
\* returned the variables all the same.
C10_GracefulDegradation ==
    secretFailures # {} =>
        /\ SpawnedOnce
        /\ secretVars # EmptyMap =>
              /\ "localKeyUnreadable" \in secretFailures
              /\ "getVariablesThrows" \notin secretFailures
              /\ secretVars = vaultVars
              /\ Count(calls, "getVariables.local")
                   + Count(calls, "getVariables.remote") = 1

C10_Witness ==
    /\ "localKeyUnreadable" \in secretFailures
    /\ "fetchRejects" \in secretFailures
    /\ "getVariablesThrows" \in secretFailures
    /\ secretVars = EmptyMap
    /\ child.exists
    /\ Count(calls, "spawn") = 1

\* the calls of the monitoring initialisation that C11 names
InitSteps ==
    {"gluon.isInitialized", "loadConfig", "createCollector", "setScope",
     "createHookManager", "createSecretsMonitor", "setMode", "setRedactText",
     "registerHooks", "trackEnvVar"}

\* one of those calls was made and threw
MonitorInitFailed ==
    /\ gluon.failAt \in InitSteps
    /\ \E i \in 1..Len(calls) : calls[i] = gluon.failAt

\* the monitoring phase is over and the request was not refused
PastMonitoring ==
    \/ pc \in {"spawn", "await", "shutdown", "stats", "report"}
    \/ promise.state # "pending"

AllInherited == <<"inherit", "inherit", "inherit">>

\* C11: when a call of the monitoring initialisation throws, the run goes on
\* unmonitored: the command is spawned with inherited stdio and without a
\* stream transform, no session id is put into its environment, and
\* telemetry.shutdown() and telemetry.getStats() are not called.
C11_MonitoringDegradation ==
    MonitorInitFailed =>
        /\ child.exists =>
              /\ child.stdio = AllInherited
              /\ child.transforms = {}
              /\ SessionKey \in DOMAIN child.env
                    => child.env[SessionKey] \notin SessionIds
        /\ Count(calls, "createContext") = 0
        /\ Count(calls, "shutdown") = 0
        /\ Count(calls, "getStats") = 0
        /\ proc.state = "exited" => Count(calls, "spawn") = 1

\* C12: the active mode is the --mode value when one is given, else the mode
\* of the persisted configuration when there is one, else detect; it is
\* detect when monitoring is disabled or its initialisation failed.
C12_ModePrecedence ==
    PastMonitoring =>
        activeMode =
            IF ~opts.monitor \/ MonitorInitFailed THEN "detect"
            ELSE IF Truthy(opts.mode) THEN opts.mode
            ELSE IF gluon.isInitialized THEN gluon.configMode
            ELSE "detect"

\* C13: when the hook manager exists, the child's stdout and stderr are each
\* piped through a transform of their own, created under the names 'stdout'
\* and 'stderr', into the parent's stdout and stderr, and stdin is inherited;
\* without monitoring all three streams are inherited and no transform is
\* created.
C13_StreamWiring ==
    child.exists =>
        /\ IF hookManager
             THEN /\ child.stdio = <<"inherit", "pipe", "pipe">>
                  /\ child.transforms = {"stdout", "stderr"}
                  /\ child.pipes =
                        { [from |-> t, via |-> t, to |-> t] : t \in {"stdout", "stderr"} }
             ELSE /\ child.stdio = AllInherited
                  /\ child.transforms = {}
                  /\ child.pipes = {}
        /\ ~opts.monitor => ~hookManager
        /\ Count(calls, "createHookManager") = 0 => ~hookManager

C13_Witness ==
    /\ child.exists /\ child.pid
    /\ hookManager
    /\ child.stdio = <<"inherit", "pipe", "pipe">>
    /\ Cardinality(child.pipes) = 2
    /\ gluon.failAt = "none"

\* C14: when the child handle emits an error because the process could not
\* be created, the promise is rejected with 'Command not found: <command>'
\* for ENOENT and with 'Failed to start command: <message>' for any other
\* error; the run then ends with that message and exit code 1, and no exit
\* code of the child is reported.
C14_SpawnFailure ==
    (child.exists /\ ~child.pid /\ errors # <<>>) =>
        /\ promise.state = "rejected"
        /\ promise.msg = IF errors[1] = "ENOENT"
                           THEN "Command not found: " \o opts.command
                           ELSE "Failed to start command: spawn " \o errors[1]
        /\ pc \in {"await", "done"}
        /\ proc.state = "exited" =>
              /\ proc.code = 1
              /\ errorText = promise.msg
        /\ \A i \in 1..Len(out) : out[i] # "----"
        /\ Count(calls, "shutdown") = 0

C14_Witness ==
    /\ child.exists /\ ~child.pid
    /\ errors = <<"ENOENT">>
    /\ child.closed
    /\ proc = [state |-> "exited", code |-> 1]
    /\ errorText = "Command not found: node"

\* C15: with --quiet the supervisor writes no line to stdout, whatever the
\* other flags are (--verbose included) and whether or not the secrets and
\* the monitoring are available.
C15_QuietSilence ==
    opts.quiet => out = <<>>

\* the process has ended through line 346, without a call of error()
ReportedExit == proc.state = "exited" /\ errorText = ""

SummaryPrinted ==
    \E i \in 1..Len(out) : out[i] = SummaryLine(promise.code, elapsed)

\* C16 as stated: when the run ends with the supervisor's result, the summary
\* with the exit code and the formatted duration has been printed exactly
\* when --quiet is not set.
C16_SummaryUnlessQuiet ==
    ReportedExit => (SummaryPrinted <=> ~opts.quiet)

\* C16, amended: when the run ends with the supervisor's result, the summary
\* with the exit code and the formatted duration has been printed exactly
\* when --quiet is not set and the secrets or the monitoring were available;
\* it is never printed with --quiet, and never before the end of the run.
C16_SummaryWhenAvailable ==
    /\ ReportedExit =>
          (SummaryPrinted <=>
              (~opts.quiet /\ (axionAvailable \/ gluonAvailable)))
    /\ SummaryPrinted => ReportedExit /\ ~opts.quiet

C16_Witness ==
    /\ ReportedExit
    /\ ~opts.quiet
    /\ axionAvailable /\ ~gluonAvailable
    /\ SummaryPrinted
    /\ out[Len(out)] = "[dotset] Exited with code 7 (1.5s)"

\* C17: formatDuration(ms) is '<ms>ms' below 1000; from 1000 up to 59999 it
\* is '<x>s' where x has one decimal and is ms/1000 rounded to it, that is,
\* x is one of the two neighbouring tenths and no further than 0.05 from
\* ms/1000; from 60000 on it is '<m>m <s>s' with m = floor(ms/60000) >= 1 and
\* s = floor((ms mod 60000)/1000) in 0..59.
C17_DurationFormat ==
    pc = "formatted" =>
        LET ms == elapsed
            text == out[1]
            m == ms \div 60000
            sec == (ms % 60000) \div 1000
        IN  /\ ms < 1000 => text = ToString(ms) \o "ms"
            /\ (1000 <= ms /\ ms < 60000) =>
                  \E n \in {ms \div 100, ms \div 100 + 1} :
                      /\ 100 * n - ms \in -50..50
                      /\ text = ToString(n \div 10) \o "." \o ToString(n % 10) \o "s"
            /\ ms >= 60000 =>
                  /\ m >= 1
                  /\ sec \in 0..59
                  /\ text = ToString(m) \o "m " \o ToString(sec) \o "s"

C17_Witness ==
    /\ pc = "formatted"
    /\ elapsed = 1250
    /\ out = <<"1.3s">>

\* the number of a signal
SignalNumber(signal) ==
    CASE signal = "SIGHUP" -> 1
      [] signal = "SIGINT" -> 2
      [] signal = "SIGQUIT" -> 3
      [] signal = "SIGKILL" -> 9
      [] signal = "SIGTERM" -> 15

\* C18 as stated: for a child ended by a signal the resolved exit code is
\* 128 plus the number of that signal.
C18_ConventionalSignalCodes ==
    (promise.state = "resolved" /\ child.signal # NoSignal)
        => promise.code = 128 + SignalNumber(child.signal)

\* C18, amended: for a child ended by SIGINT, SIGTERM or SIGHUP the resolved
\* exit code is 128 plus the number of the signal (130, 143, 129); for a
\* child ended by any other signal it is 128 itself.
C18_PinnedSignalCodes ==
    (promise.state = "resolved" /\ child.signal # NoSignal)
        => promise.code =
              IF child.signal \in {"SIGINT", "SIGTERM", "SIGHUP"}
                THEN 128 + SignalNumber(child.signal)
                ELSE 128

C18_Witness ==
    /\ child.signal = "SIGKILL"
    /\ promise = Resolved(128)
    /\ proc = [state |-> "exited", code |-> 128]

\* C19: with a telemetry session, telemetry.shutdown() is called only after
\* the child has reached its terminal state, telemetry.getStats() only after
\* shutdown() has completed, the summary is printed only after getStats(),
\* and the process exits with the result only after all of them.
C19_ReportingOrder ==
    telemetry # NoSession =>
        /\ Count(calls, "shutdown") <= 1 /\ Count(calls, "getStats") <= 1
        /\ Count(calls, "shutdown") = 1
              => promise.state = "resolved" /\ child.closed
        /\ pc \in {"stats", "report"} => Count(calls, "shutdown") = 1
        /\ Count(calls, "getStats") = 1
              => /\ Count(calls, "shutdown") = 1
                 /\ IndexOf(calls, "shutdown") < IndexOf(calls, "getStats")
        /\ SummaryPrinted => Count(calls, "getStats") = 1
        /\ ReportedExit
              => /\ Count(calls, "shutdown") = 1
                 /\ Count(calls, "getStats") = 1
                 /\ proc.code = promise.code

C19_Witness ==
    /\ telemetry # NoSession
    /\ ReportedExit
    /\ SummaryPrinted
    /\ Len(calls) >= 2
    /\ calls[Len(calls) - 1] = "shutdown"
    /\ calls[Len(calls)] = "getStats"

\* C20: with piped stdio, what has reached the parent's stdout are outputs of
\* the 'stdout' transform for chunks the child wrote to its stdout, each at
\* most once and in the order the child wrote them, and likewise for stderr;
\* no chunk reaches the other stream, also when signals are delivered.
C20_PerStreamOrder ==
    (child.exists /\ hookManager) =>
        \A t \in Streams :
            \A i \in 1..Len(written[t]) :
                LET w == written[t][i]
                IN  /\ w.via = t
                    /\ w.of.src = t
                    /\ w.of.seq \in 1..Len(produced[t])
                    /\ w.of = produced[t][w.of.seq]
                    /\ \A j \in 1..Len(written[t]) :
                          i < j => w.of.seq < written[t][j].of.seq

C20_Witness ==
    /\ hookManager
    /\ nSignals > 0 /\ kills # <<>>
    /\ Len(written["stdout"]) = 1
    /\ Len(written["stderr"]) = 1
    /\ written["stdout"][1] = [via |-> "stdout", of |-> [src |-> "stdout", seq |-> 1]]
    /\ written["stderr"][1].of.src = "stderr"

\* the state of the supervisor of spawnMonitoredProcess: Idle before the
\* spawn, Spawning while the handle has no pid, Running with a pid, Exited
\* once the promise is resolved, Failed once it is rejected
SupervisorState ==
    IF promise.state = "resolved" THEN "Exited"
    ELSE IF promise.state = "rejected" THEN "Failed"
    ELSE IF ~child.exists THEN "Idle"
    ELSE IF child.pid THEN "Running"
    ELSE "Spawning"

\* the spawn call enters Spawning and leaves it for Running or Failed before
\* it returns, or returns in Spawning when the failure is reported later
AllowedTransitions ==
    { <<"Idle", "Spawning">>, <<"Idle", "Running">>, <<"Idle", "Failed">>,
      <<"Spawning", "Failed">>,
      <<"Running", "Exited">>, <<"Running", "Failed">> }

\* C21: the command is spawned at most once; the supervisor only goes from
\* Spawning to Running, from Running to Exited and from Spawning or Running
\* to Failed; once Exited or Failed, no later event changes the outcome
\* recorded in the promise.
C21_StateMachine ==
    [][ /\ Count(calls', "spawn") <= 1
        /\ SupervisorState' # SupervisorState
              => <<SupervisorState, SupervisorState'>> \in AllowedTransitions
        /\ SupervisorState \in {"Exited", "Failed"} => promise' = promise ]_vars

C21_Witness ==
    /\ SupervisorState = "Exited"
    /\ nErrors = 1
    /\ settleCalls = 2
    /\ Count(calls, "spawn") = 1

\* C22: the supervisor does not exit on its own while the child it spawned
\* has not closed, however many signals it receives; once the child has
\* closed and the telemetry calls have returned it exits with the normalized
\* code.
C22_ExitOnlyAfterClose ==
    /\ (child.exists /\ child.pid /\ ~child.closed) => proc.state # "exited"
    /\ ReportedExit => child.closed /\ proc.code = promise.code

\* C23: the remote key is fetched at most once, only after the local key
\* read has failed and only with a projectId in the project config and a
\* stored access token; after a successful local key read nothing remote is
\* asked; the variables are read once, through the manager built on the
\* remote key exactly when the fetch delivered one.
C23_KeyLookupOrder ==
    /\ Count(calls, "fetch") <= 1
    /\ Count(calls, "fetch") = 1 =>
          /\ axion.showKey = "throws"
          /\ axion.projectConfig = "linked"
          /\ axion.token
          /\ Count(calls, "showKey") = 1
          /\ IndexOf(calls, "showKey") < IndexOf(calls, "fetch")
    /\ (Count(calls, "showKey") = 1 /\ axion.showKey = "ok") =>
          /\ Count(calls, "readFile") = 0
          /\ Count(calls, "getAccessToken") = 0
          /\ Count(calls, "fetch") = 0
          /\ Count(calls, "getVariables.remote") = 0
    /\ Count(calls, "getVariables.remote") + Count(calls, "getVariables.local") <= 1
    /\ Count(calls, "getVariables.remote") = 1 =>
          /\ Count(calls, "fetch") = 1
          /\ axion.fetch = "ok"
          /\ IndexOf(calls, "fetch") < IndexOf(calls, "getVariables.remote")
    /\ Count(calls, "getVariables.local") = 1 =>
          ~(Count(calls, "fetch") = 1 /\ axion.fetch = "ok")

C23_Witness ==
    /\ axion.showKey = "throws"
    /\ Count(calls, "fetch") = 1
    /\ Count(calls, "getVariables.remote") = 1
    /\ Count(calls, "getVariables.local") = 0
    /\ secretVars = vaultVars
    /\ child.exists

\* the calls of the monitoring phase
MonitorCalls ==
    FailableSteps \cup {"createDefaultConfig", "generateSessionId", "getMode"}

\* the monitoring was requested and none of its calls threw
MonitorInitOk ==
    /\ opts.monitor
    /\ PastMonitoring
    /\ \A i \in 1..Len(calls) : calls[i] # gluon.failAt

\* every call of the secret phase and of the monitoring phase was made
\* before the spawn
PhasesBeforeSpawn ==
    /\ child.exists => PastMonitoring /\ Count(calls, "spawn") = 1
    /\ \A i, j \in 1..Len(calls) :
          (calls[i] = "spawn" /\ calls[j] \in ProviderCalls \cup MonitorCalls)
              => j < i

TrackedValues == {p[2] : p \in monitorState.tracked}

\* the values of the resolved secrets that the child finds in its environment
InjectedSecretValues ==
    {child.env[k] : k \in {n \in DOMAIN secretVars : child.env[n] = secretVars[n]}}

\* C24 as stated: the child is spawned after both phases, and when the
\* monitoring was initialised every resolved (key, value) pair is tracked
\* by then, so that the tracked values are the secret values in the child's
\* environment.
C24_TrackedEqualsInjected ==
    /\ PhasesBeforeSpawn
    /\ (child.exists /\ MonitorInitOk) =>
          /\ monitorState.tracked = {<<k, secretVars[k]>> : k \in DOMAIN secretVars}
          /\ TrackedValues = InjectedSecretValues

\* C24, amended: the child is spawned after both phases, and when the
\* monitoring was initialised every resolved (key, value) pair is tracked
\* by then; every secret value in the child's environment is tracked, and a
\* tracked value is missing there only for a secret named GLUON_SESSION_ID,
\* which the session id replaces.
C24_TrackedBeforeSpawn ==
    /\ PhasesBeforeSpawn
    /\ (child.exists /\ MonitorInitOk) =>
          /\ monitorState.tracked = {<<k, secretVars[k]>> : k \in DOMAIN secretVars}
          /\ InjectedSecretValues \subseteq TrackedValues
          /\ \A p \in monitorState.tracked :
                p[2] \notin InjectedSecretValues
                    => p[1] = SessionKey /\ child.env[SessionKey] \in SessionIds

C24_Witness ==
    /\ child.exists
    /\ MonitorInitOk
    /\ Cardinality(monitorState.tracked) = 2
    /\ <<"TEST_SECRET", "secret-value-123">> \in monitorState.tracked
    /\ child.env["TEST_SECRET"] = "secret-value-123"
    /\ child.env[SessionKey] \in SessionIds

\* C25: whenever the promise has settled, the signal forwarding has been
\* torn down or the process has exited, the child was never created or has
\* terminated, also after an 'error' event of a child that was spawned.
C25_NoExitWhileChildAlive ==
    ( \/ promise.state # "pending"
      \/ (child.exists /\ listeners = NoListeners)
      \/ proc.state = "exited" )
        => (~child.exists \/ ~child.alive)

\* C26: with a telemetry session, the GLUON_SESSION_ID of the child is the
\* id of that session, and one id is generated in the run.
C26_SessionIdentity ==
    (child.exists /\ telemetry # NoSession) =>
        /\ child.env[SessionKey] = telemetry
        /\ idCount = 1

\* C27: after the monitoring phase a hook manager implies a telemetry
\* session, so when the child has stream transforms createContext was
\* called once, before the spawn.
C27_ContextBeforeTransforms ==
    /\ hookManager => telemetry # NoSession
    /\ Count(calls, "createContext") <= 1
    /\ (child.exists /\ child.transforms # {}) =>
          /\ Count(calls, "createContext") = 1
          /\ IndexOf(calls, "createContext") < IndexOf(calls, "spawn")

C27_Witness ==
    /\ child.exists /\ child.pid
    /\ child.transforms = {"stdout", "stderr"}
    /\ gluon.failAt = "createSecretsMonitor"
    /\ Count(calls, "createContext") = 1

\* C28: when the supervisor calls process.exit with the result and the
\* streams are piped, no chunk the child wrote is left in a pipe or in a
\* transform.
C28_NoOutputLoss ==
    (ReportedExit /\ hookManager) =>
        /\ piped = NoChunks
        /\ pending = NoChunks

\* C29: a forwarded signal that arrives after the spawn and before the
\* 'error' event of a child without pid makes no kill call and does not end
\* the supervisor, and when the run of such a child ends, it ends rejected,
\* with exit code 1.
C29_SignalDuringFailedSpawn ==
    [][ /\ \A signal \in FORWARDED_SIGNALS :
              (child.exists /\ ~child.pid /\ nErrors = 0 /\ DeliverSignal(signal))
                  => /\ kills' = kills
                     /\ proc'.state = "running"
                     /\ promise' = promise
                     /\ listeners' = listeners
        /\ (child'.exists /\ ~child'.pid /\ proc'.state = "exited")
              => /\ proc'.code = 1
                 /\ promise'.state = "rejected" ]_vars

C29_Witness ==
    /\ child.exists /\ ~child.pid
    /\ nSignals = 1
    /\ kills = <<>>
    /\ errors # <<>>
    /\ promise.state = "rejected"
    /\ proc = [state |-> "exited", code |-> 1]

\* C30: for 1000 <= ms < 60000 formatDuration(ms) is '<x>s' with one decimal
\* and 1.0 <= x < 60.0; '60.0s' is never the result.
C30_SecondsBelowSixty ==
    (pc = "formatted" /\ 1000 <= elapsed /\ elapsed < 60000) =>
        /\ out[1] # "60.0s"
        /\ \E n \in {elapsed \div 100, elapsed \div 100 + 1} :
              /\ n \in 10..599
              /\ out[1] = ToString(n \div 10) \o "." \o ToString(n % 10) \o "s"

====
